---- MODULE Spec2Model ----
(***************************************************************************)
(* ChebConv2 (spektral/layers/convolutional/cheb_conv2.py): a Chebyshev    *)
(* graph-convolution layer.  The model follows one layer instance through  *)
(* construction, build, forward calls and optimizer updates.  Tensors are  *)
(* integer-valued: a rank-3 tensor is a sequence (batch) of sequences      *)
(* (rows) of sequences (columns).                                          *)
(***************************************************************************)
EXTENDS Integers, Sequences, FiniteSets, TLC

\* ---------------------------------------------------------------- bounds
MaxK == 4            \* K ranges over 0 .. MaxK (0 is an invalid order)
MaxReplicas == 2     \* concurrent forward calls in SpecReplicas
MaxBuilds == 2       \* build runs at most MaxBuilds times per layer

\* sample tensors are generated from these seeds
Seeds == {0, 1}
Replicas == 1 .. MaxReplicas
Activations == {"linear", "relu"}
\* (batch, nodes) of the node-feature inputs offered to call
XShapes == {<<1, 2>>, <<2, 1>>, <<1, 3>>}
ChannelChoices == {1, 2}
FeatureChoices == {1, 2}

None == <<>>

\* ------------------------------------------------------ tensor builders
\* the sequence <<F(1), .., F(n)>>, as a tuple
Tabulate(n, F(_)) == [i \in 1 .. n |-> F(i)] \o <<>>

Matrix(R, C, E(_, _)) ==
    Tabulate(R, LAMBDA i : Tabulate(C, LAMBDA c : E(i, c)))

Tensor(B, R, C, E(_, _, _)) ==
    Tabulate(B, LAMBDA b : Matrix(R, C, LAMBDA i, c : E(b, i, c)))

RECURSIVE SumSeq(_)
SumSeq(q) == IF q = <<>> THEN 0 ELSE Head(q) + SumSeq(Tail(q))

SumTo(F(_), n) == SumSeq(Tabulate(n, F))

Max2(m, n) == IF m >= n THEN m ELSE n

\* ------------------------------------------------------- tensor generator
Gen(s, b, i, j) == ((1 + s + b * i + 2 * j + s * i * j + b * j) % 3) - 1

MkTensor(B, R, C, s) == Tensor(B, R, C, LAMBDA b, i, j : Gen(s, b, i, j))

MkVector(C, s) == Tabulate(C, LAMBDA c : Gen(s, 1, 2, c))

\* -------------------------------------------------------- tensor algebra
Shape(t) == <<Len(t), Len(t[1]), Len(t[1][1])>>

\* element (b, i, c) of t, a dimension of size 1 being repeated (broadcast)
Bcast(t, b, i, c) ==
    t[b][IF Len(t[b]) = 1 THEN 1 ELSE i][IF Len(t[b][1]) = 1 THEN 1 ELSE c]

DimOk(m, n) == m = n \/ m = 1 \/ n = 1

BcastOk(u, v) ==
    /\ Len(u) = Len(v)
    /\ DimOk(Len(u[1]), Len(v[1]))
    /\ DimOk(Len(u[1][1]), Len(v[1][1]))

TAdd(u, v) ==
    Tensor(Len(u), Max2(Len(u[1]), Len(v[1])), Max2(Len(u[1][1]), Len(v[1][1])),
           LAMBDA b, i, c : Bcast(u, b, i, c) + Bcast(v, b, i, c))

TSub(u, v) ==
    Tensor(Len(u), Max2(Len(u[1]), Len(v[1])), Max2(Len(u[1][1]), Len(v[1][1])),
           LAMBDA b, i, c : Bcast(u, b, i, c) - Bcast(v, b, i, c))

TMul(u, v) ==
    Tensor(Len(u), Max2(Len(u[1]), Len(v[1])), Max2(Len(u[1][1]), Len(v[1][1])),
           LAMBDA b, i, c : Bcast(u, b, i, c) * Bcast(v, b, i, c))

Scale(n, t) ==
    Tensor(Len(t), Len(t[1]), Len(t[1][1]), LAMBDA b, i, c : n * t[b][i][c])

\* KB.dot(t, w): (B, N, F) x (F, C) -> (B, N, C)
DotOk(t, w) == Len(t[1][1]) = Len(w)

KBdot(t, w) ==
    Tensor(Len(t), Len(t[1]), Len(w[1]),
           LAMBDA b, i, c : SumTo(LAMBDA f : t[b][i][f] * w[f][c], Len(w)))

\* KB.bias_add(t, bias): bias broadcast over the leading dimensions
bias_add(t, bv) ==
    Tensor(Len(t), Len(t[1]), Len(t[1][1]), LAMBDA b, i, c : t[b][i][c] + bv[c])

\* ops.modal_dot(a, x): (B, R, N) x (B, N, F) -> (B, R, F)
ModalOk(op, t) == Len(op) = Len(t) /\ Len(op[1][1]) = Len(t[1])

modal_dot(op, t) ==
    Tensor(Len(op), Len(op[1]), Len(t[1][1]),
           LAMBDA b, i, f : SumTo(LAMBDA j : op[b][i][j] * t[b][j][f], Len(t[1])))

Act(name, v) == IF name = "relu" /\ v < 0 THEN 0 ELSE v

Activate(name, t) ==
    Tensor(Len(t), Len(t[1]), Len(t[1][1]), LAMBDA b, i, c : Act(name, t[b][i][c]))

\* ------------------------------------------------ weight reparameterizer
\* Chebyshev polynomial T_n at an integer node v
RECURSIVE ChebT(_, _)
ChebT(n, v) ==
    IF n = 0 THEN 1
    ELSE IF n = 1 THEN v
    ELSE 2 * v * ChebT(n - 1, v) - ChebT(n - 2, v)

ChebNode(j) == (j % 3) - 1

ReparamOk(K_, order) == 0 <= order /\ order < K_

\* chebyshev_reparam_weights(K, kernel, order): mixes all K slices
chebyshev_reparam_weights(K_, w, order) ==
    Matrix(Len(w[1]), Len(w[1][1]),
           LAMBDA f, c : SumTo(LAMBDA j : ChebT(order, ChebNode(j)) * w[j][f][c], K_))

\* ------------------------------------------------------------- the layer
VARIABLES
    K, channels, use_bias, activation,      \* construction-time configuration
    built, kernel, bias,                    \* set by build
    weights,                                \* add_weight calls, in order
    pc, x, a, mask, T_0, T_1, output, k,    \* one forward call per replica
    reparams,                               \* reparam calls of the current call
    modalDots                               \* modal_dot calls of the current call

config == <<K, channels, use_bias, activation>>
persistent == <<built, kernel, bias>>
history == <<weights>>
locals == <<pc, x, a, mask, T_0, T_1, output, k, reparams, modalDots>>
vars == <<config, persistent, history, locals>>

Idle == [r \in Replicas |-> "idle"]
Blank == [r \in Replicas |-> None]

\* __init__: channels, K, activation and use_bias are stored unchecked
Init ==
    /\ K \in 0 .. MaxK
    /\ channels \in ChannelChoices
    /\ use_bias \in BOOLEAN
    /\ activation \in Activations
    /\ built = FALSE
    /\ kernel = None
    /\ bias = None
    /\ weights = <<>>
    /\ pc = Idle
    /\ x = Blank /\ a = Blank /\ mask = Blank
    /\ T_0 = Blank /\ T_1 = Blank /\ output = Blank
    /\ k = [r \in Replicas |-> 0]
    /\ reparams = [r \in Replicas |-> <<>>]
    /\ modalDots = [r \in Replicas |-> 0]

\* no forward call is in flight
Quiescent == \A r \in Replicas : pc[r] = "idle"

\* add_weight(shape, initializer, name, ...): the tensor it returns
add_weight(shape, s) ==
    IF Len(shape) = 3
    THEN MkTensor(shape[1], shape[2], shape[3], 2 * s)
    ELSE MkVector(shape[1], s)

NumBuilds == Cardinality({i \in 1 .. Len(weights) : weights[i] = "kernel"})

KernelShape_Transposed(input_dim) == <<K, channels, input_dim>>

\* line 78: shape=(self.K, input_dim, self.channels)
KernelShape(input_dim) == <<K, input_dim, channels>>

BuildWeights_AlwaysBias == <<"kernel", "bias">>

\* line 77-95: the add_weight calls of one build, by name
BuildWeights == IF use_bias THEN <<"kernel", "bias">> ELSE <<"kernel">>

\* build(input_shape): input_dim is the last dimension of the first input shape
Build(input_dim, s) ==
    /\ Quiescent
    /\ NumBuilds < MaxBuilds
    /\ kernel' = add_weight(KernelShape(input_dim), s)
    /\ bias' = IF Len(BuildWeights) = 2 THEN add_weight(<<channels>>, s) ELSE bias
    /\ weights' = weights \o BuildWeights
    /\ built' = TRUE
    /\ UNCHANGED <<config, locals>>

\* the external optimizer assigns new values to kernel and bias between calls
OptimizerUpdate(s) ==
    /\ Quiescent
    /\ built
    /\ K >= 1
    /\ kernel' = MkTensor(K, Len(kernel[1]), Len(kernel[1][1]), 2 * s)
    /\ kernel' # kernel
    /\ bias' = IF bias # None THEN MkVector(Len(bias), s) ELSE bias
    /\ UNCHANGED <<config, built, weights, locals>>

\* ------------------------------------------------------------ call inputs
\* operators valid for node features of shape (B, N, .)
Operators(B, N) == {MkTensor(B, N, N, s + 1) : s \in Seeds}

\* operators that are square of another size, wide, or tall
BadOperators(B, N) ==
    {MkTensor(B, N + 1, N + 1, 1), MkTensor(B, N, N + 1, 1), MkTensor(B, N + 1, N, 1)}

\* a node mask of shape (B, N, 1) with a zero at node z of every batch
NodeMask(B, N, z) == Tensor(B, N, 1, LAMBDA b, i, c : IF i = z THEN 0 ELSE 1)

\* mask is None or the list of the inputs' masks [mask of x, mask of a]
Masks(B, N) == {None, <<NodeMask(B, N, 1), None>>}

\* the (operator, mask) pairs offered with node features of shape (B, N, .)
OperatorInputs(B, N) ==
    (Operators(B, N) \X Masks(B, N)) \cup (BadOperators(B, N) \X {None})

\* the (x, a, mask) offered to a forward call
CallInputs ==
    UNION {{<<MkTensor(t[1][1], t[1][2], t[2], t[3]), in[1], in[2]>> :
               in \in OperatorInputs(t[1][1], t[1][2])} :
           t \in XShapes \X FeatureChoices \X Seeds}

\* the (x, a, mask) offered to each of the concurrent forward calls
ReplicaInputs ==
    {<<MkTensor(1, 2, 2, s), MkTensor(1, 2, 2, 1), <<NodeMask(1, 2, 1), None>>>> :
        s \in Seeds}

\* ------------------------------------------------------------------ call
\* line 100-102: x, a = inputs; T_0 = x
CallStart(r, inputs) ==
    /\ pc[r] = "idle"
    /\ \E in \in inputs :
         /\ x' = [x EXCEPT ![r] = in[1]]
         /\ a' = [a EXCEPT ![r] = in[2]]
         /\ mask' = [mask EXCEPT ![r] = in[3]]
         /\ T_0' = [T_0 EXCEPT ![r] = in[1]]
    /\ pc' = [pc EXCEPT ![r] = "order0"]
    /\ UNCHANGED <<config, persistent, history, T_1, output, k, reparams, modalDots>>

\* an exception leaves call
Raise(r) ==
    /\ pc' = [pc EXCEPT ![r] = "error"]
    /\ UNCHANGED <<x, a, mask, T_0, T_1, output, k>>

\* the record of one chebyshev_reparam_weights(self.K, self.kernel, order) call
Reparam(r, order) ==
    Append(reparams[r],
           [order |-> order,
            w |-> IF ReparamOk(K, order)
                  THEN chebyshev_reparam_weights(K, kernel, order)
                  ELSE None])

\* line 103: output = KB.dot(T_0, chebyshev_reparam_weights(self.K, self.kernel, 0))
CallOrder0(r) ==
    /\ pc[r] = "order0"
    /\ IF ~built
       THEN /\ Raise(r)
            /\ UNCHANGED reparams
       ELSE /\ reparams' = [reparams EXCEPT ![r] = Reparam(r, 0)]
            /\ IF ReparamOk(K, 0)
                  /\ DotOk(T_0[r], chebyshev_reparam_weights(K, kernel, 0))
               THEN /\ output' = [output EXCEPT ![r] =
                           KBdot(T_0[r], chebyshev_reparam_weights(K, kernel, 0))]
                    /\ pc' = [pc EXCEPT ![r] = "order1"]
                    /\ UNCHANGED <<x, a, mask, T_0, T_1, k>>
               ELSE Raise(r)
    /\ UNCHANGED <<config, persistent, history, modalDots>>

HasOrder1_Always == K >= 1

\* line 105: if self.K > 1
HasOrder1 == K > 1

\* line 105-107: the first-order term
CallOrder1(r) ==
    /\ pc[r] = "order1"
    /\ IF HasOrder1
       THEN /\ modalDots' = [modalDots EXCEPT ![r] = @ + 1]
            /\ IF ModalOk(a[r], x[r])
               THEN /\ reparams' = [reparams EXCEPT ![r] = Reparam(r, 1)]
                    /\ T_1' = [T_1 EXCEPT ![r] = modal_dot(a[r], x[r])]
                    /\ IF BcastOk(output[r], modal_dot(a[r], x[r]))
                       THEN /\ output' = [output EXCEPT ![r] =
                                   TAdd(@, KBdot(modal_dot(a[r], x[r]),
                                        chebyshev_reparam_weights(K, kernel, 1)))]
                            /\ pc' = [pc EXCEPT ![r] = "loop"]
                            /\ k' = [k EXCEPT ![r] = 2]
                       ELSE /\ pc' = [pc EXCEPT ![r] = "error"]
                            /\ UNCHANGED <<output, k>>
                    /\ UNCHANGED <<x, a, mask, T_0>>
               ELSE /\ Raise(r)
                    /\ UNCHANGED reparams
       ELSE /\ pc' = [pc EXCEPT ![r] = "loop"]
            /\ k' = [k EXCEPT ![r] = 2]
            /\ UNCHANGED <<x, a, mask, T_0, T_1, output, reparams, modalDots>>
    /\ UNCHANGED <<config, persistent, history>>

InLoop_Inclusive(r) == k[r] <= K

\* line 109: for k in range(2, self.K)
InLoop(r) == k[r] < K

NextTerm_FromT1(r) == TSub(Scale(2, modal_dot(a[r], T_1[r])), T_1[r])

\* line 110: T_2 = 2 * ops.modal_dot(a, T_1) - T_0
NextTerm(r) == TSub(Scale(2, modal_dot(a[r], T_1[r])), T_0[r])

\* line 109-112: one iteration of the loop, or its exit
CallLoop(r) ==
    /\ pc[r] = "loop"
    /\ IF InLoop(r)
       THEN /\ modalDots' = [modalDots EXCEPT ![r] = @ + 1]
            /\ IF ModalOk(a[r], T_1[r]) /\ BcastOk(modal_dot(a[r], T_1[r]), T_0[r])
               THEN /\ reparams' = [reparams EXCEPT ![r] = Reparam(r, k[r])]
                    /\ IF BcastOk(output[r], NextTerm(r))
                       THEN /\ output' = [output EXCEPT ![r] =
                                   TAdd(@, KBdot(NextTerm(r),
                                        chebyshev_reparam_weights(K, kernel, k[r])))]
                            /\ T_0' = [T_0 EXCEPT ![r] = T_1[r]]
                            /\ T_1' = [T_1 EXCEPT ![r] = NextTerm(r)]
                            /\ k' = [k EXCEPT ![r] = @ + 1]
                            /\ UNCHANGED <<pc, x, a, mask>>
                       ELSE Raise(r)
               ELSE /\ Raise(r)
                    /\ UNCHANGED reparams
       ELSE /\ pc' = [pc EXCEPT ![r] = "bias"]
            /\ UNCHANGED <<x, a, mask, T_0, T_1, output, k, reparams, modalDots>>
    /\ UNCHANGED <<config, persistent, history>>

CallBias_InPlace(r) ==
    /\ pc[r] = "bias"
    /\ output' = [output EXCEPT ![r] = IF use_bias THEN bias_add(@, bias) ELSE @]
    /\ bias' = IF use_bias THEN Tabulate(Len(bias), LAMBDA c : 2 * bias[c]) ELSE bias
    /\ pc' = [pc EXCEPT ![r] = "mask"]
    /\ UNCHANGED <<config, built, kernel, history, x, a, mask, T_0, T_1, k,
                   reparams, modalDots>>

Biased_Twice(t) == IF use_bias THEN bias_add(bias_add(t, bias), bias) ELSE t

\* line 114-115: if self.use_bias: output = KB.bias_add(output, self.bias)
Biased(t) == IF use_bias THEN bias_add(t, bias) ELSE t

CallBias(r) ==
    /\ pc[r] = "bias"
    /\ output' = [output EXCEPT ![r] = Biased(@)]
    /\ pc' = [pc EXCEPT ![r] = "mask"]
    /\ UNCHANGED <<config, persistent, history, x, a, mask, T_0, T_1, k,
                   reparams, modalDots>>

Masked_Dropped(m, t) == t

\* line 116-117: if mask is not None: output *= mask[0]
Masked(m, t) == IF m # None THEN TMul(t, m[1]) ELSE t

CallMask(r) ==
    /\ pc[r] = "mask"
    /\ output' = [output EXCEPT ![r] = Masked(mask[r], @)]
    /\ pc' = [pc EXCEPT ![r] = "activation"]
    /\ UNCHANGED <<config, persistent, history, x, a, mask, T_0, T_1, k,
                   reparams, modalDots>>

\* line 118-120: output = self.activation(output); return output
CallActivation(r) ==
    /\ pc[r] = "activation"
    /\ output' = [output EXCEPT ![r] = Activate(activation, @)]
    /\ pc' = [pc EXCEPT ![r] = "done"]
    /\ UNCHANGED <<config, persistent, history, x, a, mask, T_0, T_1, k,
                   reparams, modalDots>>

\* the caller takes the result (or the exception); the call's frame is dropped
Return(r) ==
    /\ pc[r] \in {"done", "error"}
    /\ pc' = [pc EXCEPT ![r] = "idle"]
    /\ x' = [x EXCEPT ![r] = None]
    /\ a' = [a EXCEPT ![r] = None]
    /\ mask' = [mask EXCEPT ![r] = None]
    /\ T_0' = [T_0 EXCEPT ![r] = None]
    /\ T_1' = [T_1 EXCEPT ![r] = None]
    /\ output' = [output EXCEPT ![r] = None]
    /\ k' = [k EXCEPT ![r] = 0]
    /\ reparams' = [reparams EXCEPT ![r] = <<>>]
    /\ modalDots' = [modalDots EXCEPT ![r] = 0]
    /\ UNCHANGED <<config, persistent, history>>

\* one layer, one forward call at a time
Next ==
    \/ \E d \in FeatureChoices, s \in Seeds : Build(d, s)
    \/ \E s \in Seeds : OptimizerUpdate(s)
    \/ CallStart(1, CallInputs)
    \/ CallOrder0(1)
    \/ CallOrder1(1)
    \/ CallLoop(1)
    \/ CallBias(1)
    \/ CallMask(1)
    \/ CallActivation(1)
    \/ Return(1)

Spec == Init /\ [][Next]_vars

\* one layer of order 3, forward calls running concurrently on every replica
InitReplicas == Init /\ K = 3 /\ channels = 1 /\ activation = "relu"

NextReplicas ==
    \/ \E s \in Seeds : Build(2, s)
    \/ \E s \in Seeds : OptimizerUpdate(s)
    \/ \E r \in Replicas :
         \/ CallStart(r, ReplicaInputs)
         \/ CallOrder0(r)
         \/ CallOrder1(r)
         \/ CallLoop(r)
         \/ CallBias(r)
         \/ CallMask(r)
         \/ CallActivation(r)
         \/ Return(r)

SpecReplicas == InitReplicas /\ [][NextReplicas]_vars

\* ===================================================== expected results
\* Chebyshev term C_n of the recurrence: C_0 = x, C_1 = a x,
\* C_n = 2 a C_{n-1} - C_{n-2}
RECURSIVE ChebTerm(_, _, _)
ChebTerm(n, op, t) ==
    IF n = 0 THEN t
    ELSE IF n = 1 THEN modal_dot(op, t)
    ELSE TSub(Scale(2, modal_dot(op, ChebTerm(n - 1, op, t))), ChebTerm(n - 2, op, t))

\* sum over j = 0 .. n-1 of C_j * reparam(K, kernel, j)
RECURSIVE ChebSum(_, _, _)
ChebSum(n, op, t) ==
    IF n = 1
    THEN KBdot(t, chebyshev_reparam_weights(K, kernel, 0))
    ELSE TAdd(ChebSum(n - 1, op, t),
              KBdot(ChebTerm(n - 1, op, t), chebyshev_reparam_weights(K, kernel, n - 1)))

\* the bias vector repeated over the leading dimensions of t
BiasBroadcast(t) == Tensor(Len(t), Len(t[1]), Len(bias), LAMBDA b, i, c : bias[c])

ExpectedBias(t) == IF use_bias THEN TAdd(t, BiasBroadcast(t)) ELSE t

ExpectedMask(r, t) == IF mask[r] = None THEN t ELSE TMul(t, mask[r][1])

\* the result of call(x, a, mask) on replica r with the layer's current weights
Forward(r) ==
    Activate(activation, ExpectedMask(r, ExpectedBias(ChebSum(K, a[r], x[r]))))

\* the same call on the same layer with use_bias disabled
ForwardNoBias(r) == Activate(activation, ExpectedMask(r, ChebSum(K, a[r], x[r])))

NonZero(t) == \E b \in 1 .. Len(t) : \E i \in 1 .. Len(t[b]) :
                  \E c \in 1 .. Len(t[b][i]) : t[b][i][c] # 0

\* the operator is square in its last two dimensions and has x's node count
ValidOperator(r) ==
    /\ Len(a[r]) = Len(x[r])
    /\ Len(a[r][1]) = Len(a[r][1][1])
    /\ Len(a[r][1]) = Len(x[r][1])

AfterOrder1 == {"loop", "bias", "mask", "activation", "done"}
AfterLoop == {"bias", "mask", "activation", "done"}

\* ================================================================ claims
\* C1: with K = 1 the operator product is never executed and the result is
\* x times reparam(K, kernel, 0), then bias, mask and activation, so that no
\* operator (valid or not) has any influence on it.
C1_KOneIgnoresOperator ==
    \A r \in Replicas :
        (K = 1 /\ pc[r] \in AfterOrder1) =>
            /\ modalDots[r] = 0
            /\ T_1[r] = None
            /\ pc[r] \in {"loop", "bias"} =>
                   output[r] = KBdot(x[r], chebyshev_reparam_weights(1, kernel, 0))
            /\ pc[r] = "done" =>
                   output[r] = Activate(activation, ExpectedMask(r, ExpectedBias(
                                   KBdot(x[r], chebyshev_reparam_weights(1, kernel, 0)))))

C1_Witness ==
    /\ K = 1 /\ pc[1] = "done"
    /\ NonZero(a[1]) /\ ~ValidOperator(1)
    /\ NonZero(output[1])

\* C2: for K >= 1 the output accumulated before bias, mask and activation is
\* the sum over j = 0 .. K-1 of C_j * reparam(K, kernel, j); at the head of
\* loop iteration k it holds the first k terms and T_0 = C_{k-2}, T_1 = C_{k-1}.
C2_Recurrence ==
    \A r \in Replicas :
        K >= 1 =>
            /\ pc[r] = "loop" =>
                   /\ output[r] = ChebSum(IF K = 1 THEN 1 ELSE k[r], a[r], x[r])
                   /\ K > 1 => /\ T_0[r] = ChebTerm(k[r] - 2, a[r], x[r])
                               /\ T_1[r] = ChebTerm(k[r] - 1, a[r], x[r])
            /\ pc[r] = "bias" => output[r] = ChebSum(K, a[r], x[r])

C2_Witness ==
    /\ K >= 4 /\ pc[1] = "bias" /\ ValidOperator(1)
    /\ NonZero(T_0[1]) /\ T_0[1] # T_1[1] /\ T_0[1] # x[1]
    /\ NonZero(output[1])

\* C3: after the mask step and before the activation, every output row whose
\* node has a zero mask entry is zero, whatever was accumulated and whatever the
\* bias added before the mask is.
C3_MaskZeroesRow ==
    \A r \in Replicas :
        (pc[r] = "activation" /\ mask[r] # None) =>
            \A b \in 1 .. Len(output[r]) : \A i \in 1 .. Len(output[r][b]) :
                Bcast(mask[r][1], b, i, 1) = 0 =>
                    \A c \in 1 .. Len(output[r][b][i]) : output[r][b][i][c] = 0

C3_Witness ==
    /\ pc[1] = "activation" /\ mask[1] # None /\ use_bias
    /\ mask[1][1][1][1][1] = 0
    /\ ExpectedBias(ChebSum(K, a[1], x[1]))[1][1][1] # 0
    /\ NonZero(output[1])

\* C4 as claimed: the result of a call with use_bias enabled minus the result
\* of the same call with use_bias disabled is the bias vector broadcast over
\* the leading dimensions.
C4_BiasDifference ==
    \A r \in Replicas :
        (use_bias /\ pc[r] = "done") =>
            TSub(output[r], ForwardNoBias(r)) = BiasBroadcast(output[r])

\* C4 as amended: right after the bias step (before mask and activation) the
\* output exceeds the accumulated sum by exactly the broadcast bias; for the
\* returned result this holds when no mask is passed and the activation is
\* the identity.
C4_BiasDifferencePreMask ==
    \A r \in Replicas :
        use_bias =>
            /\ pc[r] = "mask" =>
                   TSub(output[r], ChebSum(K, a[r], x[r])) = BiasBroadcast(output[r])
            /\ (pc[r] = "done" /\ mask[r] = None /\ activation = "linear") =>
                   TSub(output[r], ForwardNoBias(r)) = BiasBroadcast(output[r])

C4_Witness ==
    /\ use_bias /\ pc[1] = "done" /\ mask[1] = None /\ activation = "linear"
    /\ K >= 2 /\ ValidOperator(1)
    /\ \A c \in 1 .. Len(bias) : bias[c] # 0
    /\ NonZero(ForwardNoBias(1))

\* C5: the layer is unbuilt until build has run and built once it has run;
\* build runs exactly once per layer instance, a built layer is never built
\* again.
C5_BuiltOnce ==
    /\ ~built <=> NumBuilds = 0
    /\ built <=> NumBuilds = 1

\* C6: no step of a forward call changes K, channels, use_bias, activation,
\* built, kernel, bias or the registered weights, and every call, whatever the
\* other replicas are doing, returns the result of running it alone on its
\* own inputs and the layer's weights.
C6_CallFrame ==
    [][/\ locals' # locals => UNCHANGED <<config, persistent, history>>
       /\ \A r \in Replicas :
              (pc[r] # "done" /\ pc'[r] = "done") =>
                  /\ <<x[r], a[r], mask[r]>>' = <<x[r], a[r], mask[r]>>
                  /\ output'[r] = Forward(r)]_vars

C6_Witness ==
    /\ pc[1] = "done" /\ pc[2] \in {"order1", "loop", "bias"}
    /\ x[1] # x[2] /\ use_bias
    /\ NonZero(output[1])

\* C7: for an invalid configuration (K < 1, an operator that is not square,
\* or whose node count differs from x's) no reparameterization and no operator
\* product is executed and no output is produced.
C7_RejectedBeforeNumericWork ==
    \A r \in Replicas :
        (pc[r] # "idle" /\ (K < 1 \/ ~ValidOperator(r))) =>
            /\ reparams[r] = <<>>
            /\ modalDots[r] = 0
            /\ pc[r] # "done"

\* C8: build creates a kernel of shape (K, F_in, channels) and, for valid x of
\* shape (B, N, F_in) and operator of shape (B, N, N), the call completes with
\* an output of shape (B, N, channels).
C8_OutputShape ==
    /\ (built /\ K >= 1) => (Len(kernel) = K /\ Len(kernel[1][1]) = channels)
    /\ \A r \in Replicas :
           (built /\ K >= 1 /\ pc[r] # "idle" /\ ValidOperator(r)
                  /\ Len(x[r][1][1]) = Len(kernel[1])) =>
               /\ pc[r] # "error"
               /\ pc[r] \in AfterOrder1 =>
                      Shape(output[r]) = <<Len(x[r]), Len(x[r][1]), channels>>

C8_Witness ==
    /\ pc[1] = "done" /\ K >= 2 /\ ValidOperator(1)
    /\ Shape(x[1]) = <<2, 1, 1>> /\ channels = 2
    /\ Shape(output[1]) = <<2, 1, 2>>

C10_ReparamOrders ==
    \A r \in Replicas :
        K >= 1 =>
            /\ \A i \in 1 .. Len(reparams[r]) :
                   /\ reparams[r][i].order = i - 1
                   /\ i - 1 < K
                   /\ reparams[r][i].w = chebyshev_reparam_weights(K, kernel, i - 1)
            /\ pc[r] = "loop" => Len(reparams[r]) = (IF K = 1 THEN 1 ELSE k[r])
            /\ pc[r] \in AfterLoop => Len(reparams[r]) = K
            /\ pc[r] = "idle" => reparams[r] = <<>>

C10_Witness ==
    /\ K >= 3 /\ pc[1] = "done" /\ Len(reparams[1]) = K
    /\ reparams[1][1].w # reparams[1][2].w
    /\ reparams[1][2].w # reparams[1][3].w

====
